---- MODULE Spec2Model ----
(***************************************************************************)
(* A model of CodeFactory: the text helpers (clean_code_block,             *)
(* validate_github_url, parse_github_url) as operators over sequences of   *)
(* one-character strings, and the request pipeline of app.py               *)
(* (submit_user_story, process_existing_repo, generate_new_code) over a    *)
(* shared set of local checkouts.                                          *)
(***************************************************************************)
EXTENDS Integers, Sequences, FiniteSets, TLC

(***************************************************************************)
(* Bounds of the model.                                                    *)
(***************************************************************************)
\* longest text handed to clean_code_block
MaxTextLen == 6
\* owner and name of a URL are built from at most this many pieces
MaxPieces == 3

(***************************************************************************)
(* Text: a Python str is a sequence of one-character strings.              *)
(***************************************************************************)
\* the backtick character (a TLA+ string cannot hold one: "^" stands for it)
BT == "^"
NL == "\n"
SP == " "

Fence == <<BT, BT, BT>>
DotGit == <<".", "g", "i", "t">>
GithubCom == <<"g", "i", "t", "h", "u", "b", ".", "c", "o", "m">>
GitlabCom == <<"g", "i", "t", "l", "a", "b", ".", "c", "o", "m">>
Slash == <<"/">>
Colon == <<":">>
HttpsScheme == <<"h", "t", "t", "p", "s", ":", "/", "/">>
HttpScheme == <<"h", "t", "t", "p", ":", "/", "/">>
GitAt == <<"g", "i", "t", "@">>

\* str.isspace() on the characters the model uses
IsSpace(c) == c \in {SP, NL}

\* the characters of the regular-expression class \w
WordChar ==
    {"a", "b", "c", "d", "e", "f", "g", "h", "i", "j", "k", "l", "m", "n",
     "o", "p", "q", "r", "s", "t", "u", "v", "w", "x", "y", "z", "0", "1", "_"}

\* the class [\w.-]
ClassChar(c) == c \in WordChar \cup {".", "-"}

\* s[i:] and s[:j] of Python, 0-based, for 0 <= i, j <= len(s)
From(s, i) == SubSeq(s, i + 1, Len(s))
Upto(s, j) == SubSeq(s, 1, j)

StartsWith(s, p) == Len(p) <= Len(s) /\ SubSeq(s, 1, Len(p)) = p
EndsWith(s, p) == Len(p) <= Len(s) /\ SubSeq(s, Len(s) - Len(p) + 1, Len(s)) = p

\* the 1-based positions at which p occurs in s
Occurrences(s, p) ==
    {i \in 1..(Len(s) - Len(p) + 1) : SubSeq(s, i, i + Len(p) - 1) = p}

\* p in s
Contains(s, p) == Occurrences(s, p) # {}

Min(S) == CHOOSE x \in S : \A y \in S : x <= y

\* s.find(p): 0-based index of the first occurrence, -1 when there is none
Find(s, p) == IF Contains(s, p) THEN Min(Occurrences(s, p)) - 1 ELSE -1

RECURSIVE LStrip(_)
LStrip(s) == IF s # <<>> /\ IsSpace(Head(s)) THEN LStrip(Tail(s)) ELSE s

RECURSIVE RStrip(_)
RStrip(s) ==
    IF s # <<>> /\ IsSpace(s[Len(s)]) THEN RStrip(Upto(s, Len(s) - 1)) ELSE s

\* s.strip()
Strip(s) == RStrip(LStrip(s))

\* s.replace(p, ""): the occurrences are removed left to right, not overlapping
RECURSIVE RemoveAll(_, _)
RemoveAll(s, p) ==
    IF ~Contains(s, p) THEN s
    ELSE LET i == Find(s, p)
         IN  Upto(s, i) \o RemoveAll(From(s, i + Len(p)), p)

\* s.split(p)[-1]: what follows the last occurrence found left to right
RECURSIVE SplitLast(_, _)
SplitLast(s, p) ==
    IF ~Contains(s, p) THEN s
    ELSE SplitLast(From(s, Find(s, p) + Len(p)), p)

\* s.split(p, 1) for s containing p: the two parts around the first occurrence
SplitOnce(s, p) ==
    LET i == Find(s, p) IN <<Upto(s, i), From(s, i + Len(p))>>

\* all sequences over S of length at most n
SeqsUpTo(S, n) == UNION {[1..k -> S] : k \in 0..n}

RECURSIVE Flatten(_)
Flatten(ss) == IF ss = <<>> THEN <<>> ELSE Head(ss) \o Flatten(Tail(ss))

(***************************************************************************)
(* clean_code_block (codefactory/services/code_generation.py).             *)
(***************************************************************************)
\* code[:-3] of Python: empty when the text has fewer than three characters
DropLast3(s) == IF Len(s) >= 3 THEN Upto(s, Len(s) - 3) ELSE <<>>

\* the mutant: the input is not stripped and only a fenced text is touched
clean_code_block_keep(generated_code) ==
    IF StartsWith(generated_code, Fence) /\ EndsWith(generated_code, Fence)
    THEN DropLast3(generated_code)
    ELSE generated_code

clean_code_block(generated_code) ==
    LET code == Strip(generated_code)
    IN  IF StartsWith(code, Fence) /\ EndsWith(code, Fence)
        THEN LET first_newline == Find(code, <<NL>>)
                 body == IF first_newline # -1
                         THEN From(code, first_newline + 1)
                         ELSE code
             IN  Strip(DropLast3(body))
        ELSE code

(***************************************************************************)
(* Results of calls that can raise: kind is "ok" or the exception type.    *)
(***************************************************************************)
Raise(type) == [kind |-> type]

(***************************************************************************)
(* validate_github_url (codefactory/utils/validation.py).                  *)
(***************************************************************************)
\* $ of a Python pattern also matches just before one newline that ends the text
DollarCut(s) == IF s # <<>> /\ s[Len(s)] = NL THEN {s, Upto(s, Len(s) - 1)} ELSE {s}

\* [\w.-]+/[\w.-]+(?:\.git)?$ : the class holds the characters of ".git" and
\* no "/", so the tail is one non-empty class run, "/", one non-empty class run
OwnerSlashName(rest) ==
    \E t \in DollarCut(rest) :
        /\ Cardinality(Occurrences(t, Slash)) = 1
        /\ LET i == Find(t, Slash)
           IN  /\ i >= 1
               /\ i + 1 < Len(t)
               /\ \A k \in 1..Len(t) : k # i + 1 => ClassChar(t[k])

\* ^https?://github\.com/
HttpsPrefixes == {HttpsScheme \o GithubCom \o Slash, HttpScheme \o GithubCom \o Slash}
\* ^git@github\.com:
SshPrefix == GitAt \o GithubCom \o Colon

MatchesPattern(url, prefix) ==
    StartsWith(url, prefix) /\ OwnerSlashName(From(url, Len(prefix)))

validate_github_url(url) ==
    /\ url # <<>>
    /\ \/ \E p \in HttpsPrefixes : MatchesPattern(url, p)
       \/ MatchesPattern(url, SshPrefix)

(***************************************************************************)
(* parse_github_url (codefactory/services/git_operations.py).              *)
(***************************************************************************)
Ok(owner, repo_name) == [kind |-> "ok", owner |-> owner, name |-> repo_name]

\* the last piece after "github.com/" or "github.com:", "none" when neither is there
UrlParts(cleaned_url) ==
    IF Contains(cleaned_url, GithubCom \o Slash)
    THEN [found |-> TRUE, parts |-> SplitLast(cleaned_url, GithubCom \o Slash)]
    ELSE IF Contains(cleaned_url, GithubCom \o Colon)
    THEN [found |-> TRUE, parts |-> SplitLast(cleaned_url, GithubCom \o Colon)]
    ELSE [found |-> FALSE, parts |-> <<>>]

\* the mutant: the check of an empty owner or name (line 55) is missing
ParseBodyNoEmptyCheck(github_url) ==
    LET p == UrlParts(RemoveAll(github_url, DotGit))
    IN  IF ~p.found THEN Raise("GitOperationError")
        ELSE IF p.parts = <<>> \/ ~Contains(p.parts, Slash)
        THEN Raise("GitOperationError")
        ELSE LET on == SplitOnce(p.parts, Slash) IN Ok(on[1], on[2])

\* the body of the try block, lines 40-58
ParseBody(github_url) ==
    LET cleaned_url == RemoveAll(github_url, DotGit)
        p == UrlParts(cleaned_url)
    IN  IF ~p.found THEN Raise("GitOperationError")
        ELSE IF p.parts = <<>> \/ ~Contains(p.parts, Slash)
        THEN Raise("GitOperationError")
        ELSE LET on == SplitOnce(p.parts, Slash)
                 owner == on[1]
                 repo_name == on[2]
             IN  IF owner = <<>> \/ repo_name = <<>>
                 THEN Raise("GitOperationError")
                 ELSE Ok(owner, repo_name)

parse_github_url(github_url) ==
    IF ~validate_github_url(github_url)
    THEN Raise("GitOperationError")
    ELSE LET r == ParseBody(github_url)
         IN  IF r.kind = "ok" THEN r ELSE Raise("GitOperationError")

(***************************************************************************)
(* validate_user_story_input (codefactory/utils/validation.py). A form is  *)
(* given by the lengths of its story and notes, its priority and its       *)
(* repository field.                                                       *)
(***************************************************************************)
MaxStoryLen == 1000
MaxNotesLen == 2000
Priorities == {"low", "medium", "high"}

\* a validation that does not look at the notes
validate_without_notes(data) ==
    /\ data.userStory # 0
    /\ data.userStory <= MaxStoryLen
    /\ data.priority \in Priorities

validate_user_story_input(data) ==
    /\ data.userStory # 0
    /\ data.userStory <= MaxStoryLen
    /\ data.priority # ""
    /\ data.priority \in Priorities
    /\ data.notes <= MaxNotesLen

(***************************************************************************)
(* Paths: absolute or relative, a sequence of segments; a segment is text. *)
(***************************************************************************)
DotDot == <<".", ".">>
Dot == <<".">>
APy == <<"a", ".", "p", "y">>
KPy == <<"k", ".", "p", "y">>
XPy == <<"x", ".", "p", "y">>
Tmp == <<"t", "m", "p">>
Repos == <<"r", "e", "p", "o", "s">>
Generated == <<"g", "e", "n", "e", "r", "a", "t", "e", "d">>

Rel(segs) == [abs |-> FALSE, segs |-> segs]
Abs(segs) == [abs |-> TRUE, segs |-> segs]

\* os.path.join(a, b): an absolute b replaces a
Join(a, b) == IF b.abs THEN b ELSE [abs |-> a.abs, segs |-> a.segs \o b.segs]

\* the file a path names: "." stays, ".." leaves the directory reached so far
RECURSIVE Walk(_, _, _)
Walk(abs, stack, rest) ==
    IF rest = <<>> THEN stack
    ELSE LET seg == Head(rest)
         IN  IF seg = Dot THEN Walk(abs, stack, Tail(rest))
             ELSE IF seg = DotDot
             THEN IF stack # <<>> /\ stack[Len(stack)] # DotDot
                  THEN Walk(abs, Upto(stack, Len(stack) - 1), Tail(rest))
                  ELSE IF abs THEN Walk(abs, stack, Tail(rest))
                  ELSE Walk(abs, Append(stack, DotDot), Tail(rest))
             ELSE Walk(abs, Append(stack, seg), Tail(rest))

Resolve(p) == [abs |-> p.abs, segs |-> Walk(p.abs, <<>>, p.segs)]

\* the file p lies inside the directory root
Under(root, p) ==
    LET r == Resolve(root)
        q == Resolve(p)
    IN  /\ r.abs = q.abs
        /\ Len(q.segs) > Len(r.segs)
        /\ SubSeq(q.segs, 1, Len(r.segs)) = r.segs

\* REPO_DIR, and os.path.join(REPO_DIR, local_name)
RepoDir == Rel(<<Repos>>)
RepoPath(local_name) == Join(RepoDir, Rel(<<local_name>>))
\* os.path.join(os.getenv("REPO_DIR", "repos"), "generated")
OutputDir == Join(RepoDir, Rel(<<Generated>>))

(***************************************************************************)
(* The inputs of the pipeline.                                             *)
(***************************************************************************)
\* the requests that are served, possibly at the same time
Req == {"r1", "r2"}

\* the clock runs from second 0 to second MaxTime
MaxTime == 1
\* a generated FileSet has at most MaxFiles entries
MaxFiles == 2

\* the lines of a .gitignore
MaxIgnoreLines == 2

\* the most entries a hosting server puts in one page
ServerPageMax == 2

\* limit of BitbucketServerProvider.get_repositories
limit == 100

Al == <<"a", "l">>
Bo == <<"b", "o">>
App == <<"a", "p", "p">>

HttpsUrl(o, n) == HttpsScheme \o GithubCom \o Slash \o o \o Slash \o n
SshUrl(o, n) == SshPrefix \o o \o Slash \o n

\* the repository field of a form: empty, blank, two repositories, not a URL
RepoFields ==
    {<<>>, <<SP>>, HttpsUrl(Al, App), <<SP>> \o SshUrl(Bo, App) \o DotGit, App}

Forms ==
    [userStory : {0, 1, MaxStoryLen, MaxStoryLen + 1},
     priority : {"", "low", "medium", "high", "urgent"},
     notes : {0, MaxNotesLen, MaxNotesLen + 1},
     repository : RepoFields]

\* the keys a generated FileSet may hold, in the order the backend lists them
KeyOrder == <<Rel(<<APy>>), Rel(<<DotDot, XPy>>), Abs(<<Tmp, XPy>>)>>

PathKeys == {KeyOrder[i] : i \in 1..Len(KeyOrder)}

KeyIndex(key) == CHOOSE i \in 1..Len(KeyOrder) : KeyOrder[i] = key

\* a FileSet in the order its entries are iterated: the keys of a dict
\* differ, and json.loads keeps the order of the response
FileSets ==
    {fs \in SeqsUpTo(PathKeys, MaxFiles) :
        \A i, j \in 1..Len(fs) : i < j => KeyIndex(fs[i]) < KeyIndex(fs[j])}

\* the local directory names the accepted repository fields lead to
Dirs ==
    {parse_github_url(Strip(f)).name :
        f \in {g \in RepoFields : parse_github_url(Strip(g)).kind = "ok"}}

(***************************************************************************)
(* generate_code (codefactory/services/code_generation.py) and the prompt  *)
(* templates (codefactory/core/templates.py). A text is a sequence of      *)
(* tokens: the characters str.format looks at stand alone, the text        *)
(* between them is one token.                                              *)
(***************************************************************************)
Specials == {"{", "}", ":", "!", ".", "["}

\* TEMPLATES: the user_template of each prompt
TEMPLATES ==
    [generate_code |-> [user_template |-> <<
      "\n        The user wants the following feature", ":", "\n        ",
      "{", "requirement", "}",
      "\n\n        Write a Python program that fulfills this requirement", ".",
      "\n        Use best practices, docstrings, and clear code structure", ".",
      "\n        Organize the code into appropriate files and modules", ".",
      "\n        Return a JSON object where keys are file paths and values are the file contents", ".",
      "\n        Example format", ":", "\n        ",
      "{", "\n            \"main", ".", "py\"", ":", " \"content of main", ".",
      "py\",\n            \"utils/helpers", ".", "py\"", ":",
      " \"content of helpers", ".", "py\",\n            \"models/user", ".",
      "py\"", ":", " \"content of user", ".", "py\"\n        ", "}",
      "\n        ">>],
     update_code |-> [user_template |-> <<
      "\n        Existing codebase (JSON object mapping file paths to code)", ":",
      "\n        ", "{", "existing_code", "}",
      "\n\n        The user story is", ":", "\n        ",
      "{", "requirement", "}",
      "\n\n        Please update the existing codebase to fulfill this requirement, preserving existing functionality", ".",
      "\n        Only change what is necessary", ".",
      "\n        Return a JSON object where keys are file paths and values are the updated file contents", ".",
      "\n        You may create new files if needed for better code organization", ".",
      "\n        ">>]]

\* the position of the "}" that closes a replacement field whose content
\* begins at position i, 0 when the field is not closed
RECURSIVE Closing(_, _, _)
Closing(tokens, i, depth) ==
    IF i > Len(tokens) THEN 0
    ELSE IF tokens[i] = "{" THEN Closing(tokens, i + 1, depth + 1)
    ELSE IF tokens[i] = "}"
    THEN IF depth = 0 THEN i ELSE Closing(tokens, i + 1, depth - 1)
    ELSE Closing(tokens, i + 1, depth)

\* the name a replacement field looks up: what stands before the first of
\* ".", "[", "!" and ":"
FieldName(field) ==
    IF field # <<>> /\ Head(field) \notin Specials THEN Head(field) ELSE ""

\* a str.format that leaves every replacement field as it stands
FormatAsIs(tokens, kwargs, out) == [kind |-> "ok", text |-> tokens]

\* str.format(**kwargs): "{{" and "}}" are braces, "{...}" is replaced by
\* the keyword argument of that name, as it is and without a second scan
RECURSIVE Format(_, _, _)
Format(tokens, kwargs, out) ==
    IF tokens = <<>> THEN [kind |-> "ok", text |-> out]
    ELSE IF Head(tokens) = "{"
    THEN IF Len(tokens) >= 2 /\ tokens[2] = "{"
         THEN Format(From(tokens, 2), kwargs, Append(out, "{"))
         ELSE LET close == Closing(tokens, 2, 0)
                  name == FieldName(SubSeq(tokens, 2, close - 1))
              IN  IF close = 0 THEN Raise("ValueError")
                  ELSE IF name = "" THEN Raise("IndexError")
                  ELSE IF name \notin DOMAIN kwargs THEN Raise("KeyError")
                  ELSE Format(From(tokens, close), kwargs, out \o kwargs[name])
    ELSE IF Head(tokens) = "}"
    THEN IF Len(tokens) >= 2 /\ tokens[2] = "}"
         THEN Format(From(tokens, 2), kwargs, Append(out, "}"))
         ELSE Raise("ValueError")
    ELSE Format(Tail(tokens), kwargs, Append(out, Head(tokens)))

\* what the Completion Provider answers: it raises CodeGenerationError, or
\* returns a text that is no JSON, a JSON array, or a JSON object
Replies ==
    {[kind |-> "CodeGenerationError", json |-> "none", value |-> <<>>],
     [kind |-> "text", json |-> "invalid", value |-> <<>>],
     [kind |-> "text", json |-> "array", value |-> <<>>]}
    \cup {[kind |-> "text", json |-> "object", value |-> fs] : fs \in FileSets}

\* a json.loads that reads every text as an empty object
json_loads_anything(response) ==
    [kind |-> "ok", type |-> "dict",
     value |-> IF response.json = "object" THEN response.value ELSE <<>>]

\* json.loads(response)
json_loads(response) ==
    IF response.json = "invalid" THEN Raise("JSONDecodeError")
    ELSE [kind |-> "ok",
          type |-> IF response.json = "object" THEN "dict" ELSE "list",
          value |-> response.value]

\* generate_code ends with CodeGenerationError after so many provider calls
Failed(calls) ==
    [kind |-> "CodeGenerationError", calls |-> calls, type |-> "none",
     value |-> <<>>]

\* generate_code(template_name, **kwargs), the provider answering reply:
\* every exception of lines 132-161 becomes CodeGenerationError (line 164)
generate_code(template_name, kwargs, reply) ==
    IF template_name \notin DOMAIN TEMPLATES THEN Failed(0)
    ELSE IF Format(TEMPLATES[template_name].user_template, kwargs, <<>>).kind # "ok"
    THEN Failed(0)
    ELSE IF reply.kind # "text" THEN Failed(1)
    ELSE IF json_loads(reply).kind # "ok" THEN Failed(1)
    ELSE [kind |-> "ok", calls |-> 1, type |-> json_loads(reply).type,
          value |-> json_loads(reply).value]

\* full_prompt (app.py:209)
FullPrompt == <<"User Story", ":", " s\nPriority", ":", " high\nNotes", ":", " ">>

\* str(existing_code): the dict in braces
StrOfDict(codebase) == <<"{", "'a", ".", "py'", ":", " '", "'", "}">>

\* generate_code_for_user_story(user_story)
generate_code_for_user_story(user_story, reply) ==
    generate_code("generate_code", [requirement |-> user_story], reply)

\* generate_updated_code(user_story, existing_code)
generate_updated_code(user_story, existing_code, reply) ==
    generate_code("update_code",
                  [requirement |-> user_story,
                   existing_code |-> StrOfDict(existing_code)], reply)

(***************************************************************************)
(* A checkout: the files of its working tree and of its branches.          *)
(***************************************************************************)
\* BASE_BRANCH, "main" by default
Base == <<"main">>
\* f"feature/user-story-update-{branch_suffix}" at second t
Feature(t) == <<"feature/user-story-update-", t>>

\* the tracked files of a checkout, as paths inside its root
Locs == {<<APy>>, <<KPy>>}
\* what the remote's base branch holds
UpstreamTree == [l \in Locs |-> "orig"]

EmptyTree == [l \in Locs |-> "none"]

\* no directory at the path
NoDir ==
    [kind |-> "absent", origin |-> <<>>, head |-> Base, branches |-> {},
     tips |-> <<>>, work |-> EmptyTree]

(***************************************************************************)
(* State.                                                                  *)
(***************************************************************************)
VARIABLES
    phase,             \* which step of a text-function run was taken last
    text,              \* the text handed to clean_code_block
    cleaned,           \* clean_code_block(text)
    recleaned,         \* clean_code_block(cleaned)
    urlParts,          \* the pieces a URL is built from
    parsed,            \* parse_github_url of the URL
    pc,                \* per request: the step it takes next
    repo_field,        \* per request: request.form['repository'] as submitted
    repository_input,  \* per request: the stripped repository field
    owner,             \* per request: the owner parse_github_url returned
    repo_name_local,   \* per request: the name of the local directory
    found,             \* per request: what the path held when it was found to exist
    todo,              \* per request: the entries of the FileSet still to iterate
    new_branch_name,   \* per request: the name computed by the running publish call
    branch_name,       \* per request: the name the last publish call returned
    created,           \* per request: the branches its checkout -b created
    response,          \* per request: the HTTP response
    disk,              \* per directory name: the checkout at REPO_DIR/name
    now,               \* the clock, in seconds
    event,             \* the operation the last step performed
    gen,               \* the generate_code call that is running
    given,             \* what a function under test is applied to
    returned           \* what it returned

textVars == <<phase, text, cleaned, recleaned, urlParts, parsed>>

reqVars ==
    <<pc, repo_field, repository_input, owner, repo_name_local, found, todo,
      new_branch_name, branch_name, created, response>>

worldVars == <<disk, now, event>>

callVars == <<gen, given, returned>>

vars == <<textVars, reqVars, worldVars, callVars>>

\* the text variables while another specification runs
TextIdle ==
    /\ phase = "idle"
    /\ text = <<>>
    /\ cleaned = <<>>
    /\ recleaned = <<>>
    /\ urlParts = [prefix |-> <<>>, owner |-> <<>>, sep |-> <<>>,
                   name |-> <<>>, suffix |-> <<>>]
    /\ parsed = [kind |-> "none"]

\* branch_name before the loop has assigned it
Unbound == <<"unbound">>

NoResponse == [status |-> 0, error |-> "none"]

NoEvent == [op |-> "none", by |-> "none"]

\* no generate_code call and no function under test
CallIdle ==
    /\ gen = [state |-> "Idle"]
    /\ given = <<>>
    /\ returned = <<>>

\* the pipeline before any request has arrived: no checkout exists
PipeIdle ==
    /\ pc = [r \in Req |-> "idle"]
    /\ repo_field = [r \in Req |-> <<>>]
    /\ repository_input = [r \in Req |-> <<>>]
    /\ owner = [r \in Req |-> <<>>]
    /\ repo_name_local = [r \in Req |-> <<>>]
    /\ found = [r \in Req |-> "none"]
    /\ todo = [r \in Req |-> <<>>]
    /\ new_branch_name = [r \in Req |-> Unbound]
    /\ branch_name = [r \in Req |-> Unbound]
    /\ created = [r \in Req |-> {}]
    /\ response = [r \in Req |-> NoResponse]
    /\ disk = [d \in Dirs |-> NoDir]
    /\ now = 0
    /\ event = NoEvent

(***************************************************************************)
(* Git on a checkout.                                                      *)
(***************************************************************************)
\* git clone of url into an absent path, when it succeeds: base is checked out
ClonedDir(url) ==
    [kind |-> "repo", origin |-> url, head |-> Base, branches |-> {Base},
     tips |-> (Base :> UpstreamTree), work |-> UpstreamTree]

\* what a clone that fails can leave at the path: nothing, a directory that is
\* no repository, or a directory whose .git opens but holds no branch yet
FailedCloneKinds == {"absent", "nogit", "halfgit"}

FailedClone(url, kind) ==
    IF kind = "absent" THEN NoDir
    ELSE [NoDir EXCEPT !.kind = kind,
                       !.origin = IF kind = "halfgit" THEN url ELSE <<>>]

\* the files changed in the working tree since the commit checked out
Modified(dir) == {l \in Locs : dir.work[l] # dir.tips[dir.head][l]}

\* git checkout b, for a local branch b: refused when a changed file differs
\* between the two branches, otherwise the changes are carried over
GitCheckout(dir, b) ==
    LET from == dir.tips[dir.head]
        to == dir.tips[b]
    IN  IF \E l \in Modified(dir) : from[l] # to[l]
        THEN [ok |-> FALSE, dir |-> dir]
        ELSE [ok |-> TRUE,
              dir |-> [dir EXCEPT
                         !.head = b,
                         !.work = [l \in Locs |->
                                     IF l \in Modified(dir) THEN dir.work[l]
                                     ELSE to[l]]]]

\* git checkout of the base branch: in a checkout without a local base branch
\* it is created from origin's, which the fetch has brought
GitCheckoutBase(dir) ==
    IF Base \in dir.branches
    THEN GitCheckout(dir, Base)
    ELSE [ok |-> TRUE,
          dir |-> [dir EXCEPT !.kind = "repo", !.head = Base,
                              !.branches = {Base},
                              !.tips = (Base :> UpstreamTree),
                              !.work = UpstreamTree]]

\* git checkout -b name: a new branch at the commit checked out
GitCheckoutNew(dir, name) ==
    [dir EXCEPT !.head = name,
                !.branches = dir.branches \cup {name},
                !.tips = (name :> dir.tips[dir.head]) @@ dir.tips]

\* repo_name_local = remote_repo_name (app.py:255)
LocalName(own, remote_repo_name) == remote_repo_name

(***************************************************************************)
(* submit_user_story and what it answers.                                  *)
(***************************************************************************)
\* the except clauses around process_existing_repo (app.py:221-225)
RespondExisting(exc) ==
    IF exc \in {"GitOperationError", "CodeGenerationError"}
    THEN [status |-> 500, error |-> exc]
    ELSE [status |-> 500, error |-> "Repository operation failed"]

\* the except clauses around generate_new_code (app.py:235-239)
RespondNew(exc) ==
    IF exc = "CodeGenerationError"
    THEN [status |-> 500, error |-> exc]
    ELSE [status |-> 500, error |-> "Code generation failed"]

\* the local variables of process_existing_repo and generate_new_code
locals == <<todo, new_branch_name, branch_name, created>>

\* the handler returns: its local variables are gone
End(r, resp) ==
    /\ pc' = [pc EXCEPT ![r] = "done"]
    /\ response' = [response EXCEPT ![r] = resp]
    /\ todo' = [todo EXCEPT ![r] = <<>>]
    /\ new_branch_name' = [new_branch_name EXCEPT ![r] = Unbound]
    /\ branch_name' = [branch_name EXCEPT ![r] = Unbound]
    /\ created' = [created EXCEPT ![r] = {}]

\* the handler goes on to its next step
Goto(r, step) ==
    /\ pc' = [pc EXCEPT ![r] = step]
    /\ UNCHANGED response

\* the requests are numbered in the order they arrive
ArrivesBefore(q, r) == q = "r1" /\ r = "r2"

\* the forms a request may hold: the repository of the first request to
\* arrive, when it names one, is al/app; a later request names either
FormsOf(r) ==
    {form \in Forms :
        (\E q \in Req : ArrivesBefore(r, q)) =>
            form.repository # <<SP>> \o SshUrl(Bo, App) \o DotGit}

\* submit_user_story up to the call of clone_or_open_repo or of
\* generate_code_for_user_story: validation, strip, parse_github_url
Submit(r) ==
    /\ pc[r] = "idle"
    /\ \A q \in Req : ArrivesBefore(q, r) => pc[q] # "idle"
    /\ \E form \in FormsOf(r) :
        /\ event' = [op |-> "submit", by |-> r,
                     valid |-> validate_user_story_input(form)]
        /\ IF ~validate_user_story_input(form)
           THEN /\ End(r, [status |-> 400, error |-> "validation"])
                /\ UNCHANGED <<repo_field, repository_input, owner, repo_name_local>>
           ELSE LET input == Strip(form.repository)
                    p == parse_github_url(input)
                IN  /\ repo_field' = [repo_field EXCEPT ![r] = form.repository]
                    /\ repository_input' = [repository_input EXCEPT ![r] = input]
                    /\ IF input = <<>>
                       THEN /\ Goto(r, "generate_new")
                            /\ UNCHANGED <<owner, repo_name_local, locals>>
                       ELSE IF p.kind = "ok"
                       THEN /\ Goto(r, "clone")
                            /\ owner' = [owner EXCEPT ![r] = p.owner]
                            /\ repo_name_local' =
                                 [repo_name_local EXCEPT ![r] = LocalName(p.owner, p.name)]
                            /\ UNCHANGED locals
                       ELSE /\ End(r, RespondExisting(p.kind))
                            /\ UNCHANGED <<owner, repo_name_local>>
    /\ UNCHANGED <<found, disk, now, textVars, callVars>>

(***************************************************************************)
(* clone_or_open_repo (codefactory/services/git_operations.py).            *)
(***************************************************************************)
\* lines 77-96: the path is cloned into when absent and opened otherwise,
\* then origin is fetched
CloneOrOpen(r) ==
    LET d == repo_name_local[r]
        url == repository_input[r]
    IN  /\ pc[r] = "clone"
        /\ event' = [op |-> "clone_or_open_repo", by |-> r]
        /\ IF ~validate_github_url(url)
           THEN /\ End(r, RespondExisting("GitOperationError"))
                /\ UNCHANGED <<disk, found>>
           ELSE IF disk[d].kind = "absent"
           THEN /\ UNCHANGED found
                /\ \/ /\ disk' = [disk EXCEPT ![d] = ClonedDir(url)]
                      /\ \/ Goto(r, "checkout_base") /\ UNCHANGED locals
                         \/ End(r, RespondExisting("GitOperationError"))
                   \/ /\ \E left \in FailedCloneKinds :
                            disk' = [disk EXCEPT ![d] = FailedClone(url, left)]
                      /\ End(r, RespondExisting("GitOperationError"))
           ELSE /\ found' = [found EXCEPT ![r] = disk[d].kind]
                /\ UNCHANGED disk
                /\ IF disk[d].kind = "nogit"
                   THEN End(r, RespondExisting("InvalidGitRepositoryError"))
                   ELSE \/ Goto(r, "checkout_base") /\ UNCHANGED locals
                        \/ End(r, RespondExisting("GitOperationError"))
        /\ UNCHANGED <<repo_field, repository_input, owner, repo_name_local,
                       now, textVars, callVars>>

\* lines 102-107: the base branch is checked out and pulled; the remote's
\* base branch does not move in this model, so a pull changes no file
CheckoutBase(r) ==
    LET d == repo_name_local[r]
        res == GitCheckoutBase(disk[d])
    IN  /\ pc[r] = "checkout_base"
        /\ event' = [op |-> "checkout", by |-> r]
        /\ IF res.ok
           THEN /\ disk' = [disk EXCEPT ![d] = res.dir]
                /\ \/ Goto(r, "snapshot") /\ UNCHANGED locals
                   \/ End(r, RespondExisting("GitOperationError"))
           ELSE /\ UNCHANGED disk
                /\ End(r, RespondExisting("GitOperationError"))
        /\ UNCHANGED <<repo_field, repository_input, owner, repo_name_local,
                       found, now, textVars, callVars>>

(***************************************************************************)
(* process_existing_repo (app.py), after clone_or_open_repo.               *)
(***************************************************************************)
\* lines 265-296: the files of the working tree are read, and
\* generate_updated_code returns what the provider's answer holds or raises;
\* line 299: what is returned has items() when it is a dict
Snapshot(r) ==
    LET d == repo_name_local[r]
        codebase == disk[d].work
    IN  /\ pc[r] = "snapshot"
        /\ \E reply \in Replies :
            LET updated_codebase == generate_updated_code(FullPrompt, codebase, reply)
            IN  /\ event' = [op |-> "snapshot", by |-> r, codebase |-> codebase,
                             reply |-> reply.json, created |-> created[r]]
                /\ IF updated_codebase.kind # "ok"
                   THEN End(r, RespondExisting(updated_codebase.kind))
                   ELSE IF updated_codebase.type # "dict"
                   THEN End(r, RespondExisting("AttributeError"))
                   ELSE /\ todo' = [todo EXCEPT ![r] = updated_codebase.value]
                        /\ Goto(r, IF updated_codebase.value = <<>>
                                   THEN "create_pr" ELSE "write")
                        /\ UNCHANGED <<new_branch_name, branch_name, created>>
        /\ UNCHANGED <<repo_field, repository_input, owner, repo_name_local,
                       found, disk, now, textVars, callVars>>

\* file_path = os.path.join(repo_path, rel_path) (app.py:300, 353)
FilePath(root, key) == Join(root, key)

\* the path of a file inside root, relative to root
Inside(root, file_path) ==
    SubSeq(Resolve(file_path).segs, Len(Resolve(root).segs) + 1,
           Len(Resolve(file_path).segs))

\* a write that makes the checkout equal to the FileSet: the file is
\* written and every other tracked file is removed
WriteAndPrune(r, d, file_path) ==
    LET root == RepoPath(d)
    IN  /\ disk' = [disk EXCEPT ![d].work =
                      [l \in Locs |->
                         IF Under(root, file_path) /\ Inside(root, file_path) = l
                         THEN r ELSE "none"]]
        /\ event' = [op |-> "write", by |-> r, root |-> root,
                     dest |-> Resolve(file_path), head |-> disk[d].head]

\* open(file_path, 'w') and write, by request r in the checkout named d: a
\* tracked file of the checkout changes, any other file is only reported
WriteInto(r, d, file_path) ==
    LET root == RepoPath(d)
    IN  /\ disk' = IF Under(root, file_path) /\ Inside(root, file_path) \in Locs
                   THEN [disk EXCEPT ![d].work[Inside(root, file_path)] = r]
                   ELSE disk
        /\ event' = [op |-> "write", by |-> r, root |-> root,
                     dest |-> Resolve(file_path), head |-> disk[d].head]

\* lines 299-303: the file of the entry is written
WriteFile(r) ==
    LET d == repo_name_local[r]
    IN  /\ pc[r] = "write"
        /\ WriteInto(r, d, FilePath(RepoPath(d), Head(todo[r])))
        /\ Goto(r, "branch")
        /\ UNCHANGED <<repo_field, repository_input, owner, repo_name_local,
                       found, locals, now, textVars, callVars>>

(***************************************************************************)
(* create_unique_branch_and_push (git_operations.py); every exception in   *)
(* it becomes a GitOperationError (line 163).                              *)
(***************************************************************************)
\* lines 139-146: the name is taken from the clock, which has gone on by any
\* number of seconds; checkout -b, and when that fails a checkout of the
\* branch of that name
CheckoutNew(r) ==
    LET d == repo_name_local[r]
    IN  /\ pc[r] = "branch"
        /\ \E t \in now..MaxTime :
            LET name == Feature(t)
                res == GitCheckout(disk[d], name)
            IN  /\ now' = t
                /\ event' = [op |-> "checkout", by |-> r, branch |-> name,
                             from |-> disk[d].head,
                             new |-> name \notin disk[d].branches]
                /\ IF name \notin disk[d].branches
                   THEN /\ disk' = [disk EXCEPT ![d] = GitCheckoutNew(disk[d], name)]
                        /\ created' = [created EXCEPT ![r] = @ \cup {name}]
                        /\ new_branch_name' = [new_branch_name EXCEPT ![r] = name]
                        /\ Goto(r, "write2")
                        /\ UNCHANGED <<todo, branch_name>>
                   ELSE IF res.ok
                   THEN /\ disk' = [disk EXCEPT ![d] = res.dir]
                        /\ new_branch_name' = [new_branch_name EXCEPT ![r] = name]
                        /\ Goto(r, "write2")
                        /\ UNCHANGED <<created, todo, branch_name>>
                   ELSE /\ UNCHANGED disk
                        /\ End(r, RespondExisting("GitOperationError"))
        /\ UNCHANGED <<repo_field, repository_input, owner, repo_name_local,
                       found, textVars, callVars>>

\* lines 149-150: the file is written again
WriteAgain(r) ==
    LET d == repo_name_local[r]
    IN  /\ pc[r] = "write2"
        /\ WriteInto(r, d, FilePath(RepoPath(d), Head(todo[r])))
        /\ Goto(r, "commit")
        /\ UNCHANGED <<repo_field, repository_input, owner, repo_name_local,
                       found, locals, now, textVars, callVars>>

\* a check that finds every tree dirty
is_dirty_always(dir) == TRUE

\* repo.is_dirty() after git add -A: the index differs from the last
\* commit of the branch checked out
is_dirty(dir) == dir.work # dir.tips[dir.head]

\* lines 153-155: git add -A, and a commit on the branch checked out when
\* the index differs from its last commit
StageCommit(r) ==
    LET d == repo_name_local[r]
        dir == disk[d]
        dirty == is_dirty(dir)
    IN  /\ pc[r] = "commit"
        /\ event' = [op |-> "commit", by |-> r, made |-> dirty,
                     branch |-> dir.head, tree |-> dir.work,
                     parent |-> dir.tips[dir.head]]
        /\ disk' = IF dirty
                   THEN [disk EXCEPT ![d].tips[dir.head] = dir.work]
                   ELSE disk
        /\ Goto(r, "push")
        /\ UNCHANGED <<repo_field, repository_input, owner, repo_name_local,
                       found, locals, now, textVars, callVars>>

\* the call returns new_branch_name and the loop of app.py:299 goes to its
\* next entry, or ends
NextEntry(r) ==
    /\ branch_name' = [branch_name EXCEPT ![r] = new_branch_name[r]]
    /\ todo' = [todo EXCEPT ![r] = Tail(@)]
    /\ Goto(r, IF Len(todo[r]) > 1 THEN "write" ELSE "create_pr")
    /\ UNCHANGED <<new_branch_name, created>>

\* lines 158-161: origin.push(new_branch_name). The push succeeds, or has its
\* ref rejected, which GitPython reports in the list it returns and does not
\* raise, or fails as a whole and raises
Push(r) ==
    LET d == repo_name_local[r]
        name == new_branch_name[r]
        pushing(result) ==
            [op |-> "push", by |-> r, result |-> result,
             origin |-> disk[d].origin, branch |-> name,
             kept |-> name \in disk[d].branches]
    IN  /\ pc[r] = "push"
        /\ \/ /\ event' = pushing("pushed")
              /\ NextEntry(r)
           \/ /\ event' = pushing("rejected")
              /\ NextEntry(r)
           \/ /\ event' = pushing("raised")
              /\ End(r, RespondExisting("GitOperationError"))
        /\ UNCHANGED <<repo_field, repository_input, owner, repo_name_local,
                       found, disk, now, textVars, callVars>>

\* app.py:315-335 and create_pull_request: with an empty FileSet branch_name
\* was never assigned and the call raises UnboundLocalError; after the pull
\* request save_to_db, whose failure is logged, and the confirmation
CreatePR(r) ==
    LET p == parse_github_url(repository_input[r])
        asking(result) ==
            [op |-> "create_pull_request", by |-> r, result |-> result,
             repo |-> <<p.owner, p.name>>, head |-> branch_name[r],
             base |-> Base]
    IN  /\ pc[r] = "create_pr"
        /\ IF branch_name[r] = Unbound
           THEN /\ event' = [op |-> "none", by |-> r]
                /\ End(r, RespondExisting("UnboundLocalError"))
           ELSE \/ /\ p.kind = "ok"
                   /\ event' = asking("created")
                   /\ End(r, [status |-> 200, error |-> "none"])
                \/ /\ event' = asking("raised")
                   /\ End(r, RespondExisting("GitOperationError"))
        /\ UNCHANGED <<repo_field, repository_input, owner, repo_name_local,
                       found, disk, now, textVars, callVars>>

(***************************************************************************)
(* generate_new_code (app.py).                                             *)
(***************************************************************************)
\* lines 345-372: generate_code_for_user_story returns what the provider's
\* answer holds or raises; every entry is written under the output
\* directory; save_to_db, whose failure is logged, and the confirmation
generate_new_code(r) ==
    /\ pc[r] = "generate_new"
    /\ \E reply \in Replies :
        LET generated_codebase == generate_code_for_user_story(FullPrompt, reply)
            files == generated_codebase.value
            wrote(n) == {Resolve(FilePath(OutputDir, files[i])) : i \in 1..n}
            ending(n) == [op |-> "generate_new_code", by |-> r,
                          calls |-> generated_codebase.calls, wrote |-> wrote(n)]
        IN  IF generated_codebase.kind # "ok"
            THEN /\ event' = ending(0)
                 /\ End(r, RespondNew(generated_codebase.kind))
            ELSE IF generated_codebase.type # "dict"
            THEN /\ event' = ending(0)
                 /\ End(r, RespondNew("AttributeError"))
            ELSE /\ event' = ending(Len(files))
                 /\ End(r, [status |-> 200, error |-> "none"])
    /\ UNCHANGED <<repo_field, repository_input, owner, repo_name_local, found,
                   disk, now, textVars, callVars>>

Init == TextIdle /\ PipeIdle /\ CallIdle

Next ==
    \E r \in Req :
        \/ Submit(r)
        \/ CloneOrOpen(r)
        \/ CheckoutBase(r)
        \/ Snapshot(r)
        \/ WriteFile(r)
        \/ CheckoutNew(r)
        \/ WriteAgain(r)
        \/ StageCommit(r)
        \/ Push(r)
        \/ CreatePR(r)
        \/ generate_new_code(r)

Spec == Init /\ [][Next]_vars

(***************************************************************************)
(* SpecClean: clean_code_block applied once and twice to every text over   *)
(* {backtick, newline, space, "a"} of at most MaxTextLen characters.       *)
(***************************************************************************)
CleanAlphabet == {BT, NL, SP, "a"}

InitClean ==
    /\ PipeIdle
    /\ CallIdle
    /\ phase = "text"
    /\ text \in SeqsUpTo(CleanAlphabet, MaxTextLen)
    /\ cleaned = <<>>
    /\ recleaned = <<>>
    /\ urlParts = [prefix |-> <<>>, owner |-> <<>>, sep |-> <<>>,
                   name |-> <<>>, suffix |-> <<>>]
    /\ parsed = [kind |-> "none"]

CleanOnce ==
    /\ phase = "text"
    /\ cleaned' = clean_code_block(text)
    /\ phase' = "once"
    /\ UNCHANGED <<text, recleaned, urlParts, parsed, reqVars, worldVars, callVars>>

CleanTwice ==
    /\ phase = "once"
    /\ recleaned' = clean_code_block(cleaned)
    /\ phase' = "twice"
    /\ UNCHANGED <<text, cleaned, urlParts, parsed, reqVars, worldVars, callVars>>

NextClean == CleanOnce \/ CleanTwice

SpecClean == InitClean /\ [][NextClean]_vars

(***************************************************************************)
(* SpecGen: one call of generate_code, step by step: the template is       *)
(* rendered, the Completion Provider is asked, its answer is parsed.       *)
(***************************************************************************)
\* the user stories: a plain one, and one that holds braces
Requirements == {FullPrompt, <<"User Story", ":", " ", "{", "x", "}">>}

\* the keyword arguments of generate_code_for_user_story (line 173) and of
\* generate_updated_code (line 186)
KwargsOf(template_name, requirement) ==
    IF template_name = "update_code"
    THEN [requirement |-> requirement, existing_code |-> StrOfDict(<<>>)]
    ELSE [requirement |-> requirement]

InitGen ==
    /\ TextIdle
    /\ PipeIdle
    /\ given = <<>>
    /\ returned = <<>>
    /\ gen \in [state : {"Rendering"},
                template_name : {"generate_code", "update_code"},
                requirement : Requirements,
                reply : Replies,
                calls : {0},
                messages : {<<>>},
                value : {<<>>}]

\* lines 132-146: the template is looked up and formatted
Render ==
    /\ gen.state = "Rendering"
    /\ LET user_message ==
               IF gen.template_name \in DOMAIN TEMPLATES
               THEN Format(TEMPLATES[gen.template_name].user_template,
                           KwargsOf(gen.template_name, gen.requirement), <<>>)
               ELSE Raise("CodeGenerationError")
       IN  gen' = IF user_message.kind = "ok"
                  THEN [gen EXCEPT !.state = "AwaitingCompletion",
                                   !.messages = user_message.text]
                  ELSE [gen EXCEPT !.state = "Failed"]
    /\ UNCHANGED <<given, returned, textVars, reqVars, worldVars>>

\* lines 149-152: provider.generate_completion(messages)
Complete ==
    /\ gen.state = "AwaitingCompletion"
    /\ gen' = [gen EXCEPT !.calls = @ + 1,
                          !.state = IF gen.reply.kind = "text"
                                    THEN "Parsing" ELSE "Failed"]
    /\ UNCHANGED <<given, returned, textVars, reqVars, worldVars>>

\* lines 155-161: json.loads(response)
Parse ==
    /\ gen.state = "Parsing"
    /\ gen' = IF json_loads(gen.reply).kind = "ok"
              THEN [gen EXCEPT !.state = "Done",
                               !.value = json_loads(gen.reply).value]
              ELSE [gen EXCEPT !.state = "Failed"]
    /\ UNCHANGED <<given, returned, textVars, reqVars, worldVars>>

NextGen == Render \/ Complete \/ Parse

SpecGen == InitGen /\ [][NextGen]_vars

(***************************************************************************)
(* SpecParse: parse_github_url applied to URLs put together from a prefix, *)
(* an owner, a separator, a name and a suffix.                             *)
(***************************************************************************)
UrlPieces == {<<"a">>, DotGit, GithubCom}

\* the owners and names: one to MaxPieces pieces, joined
UrlWords == {Flatten(w) : w \in SeqsUpTo(UrlPieces, MaxPieces) \ {<<>>}}

UrlPrefixes ==
    HttpsPrefixes \cup {SshPrefix, HttpsScheme \o GitlabCom \o Slash, GithubCom \o Slash}

UrlOf(p) == p.prefix \o p.owner \o p.sep \o p.name \o p.suffix

InitParse ==
    /\ PipeIdle
    /\ CallIdle
    /\ phase = "url"
    /\ urlParts \in [prefix : UrlPrefixes,
                     owner : UrlWords \cup {<<>>},
                     sep : {Slash, <<>>},
                     name : UrlWords \cup {<<>>, <<"a", "/", "a">>, <<"a", SP>>},
                     suffix : {<<>>, DotGit, <<NL>>}]
    /\ parsed = [kind |-> "none"]
    /\ text = <<>>
    /\ cleaned = <<>>
    /\ recleaned = <<>>

ParseUrl ==
    /\ phase = "url"
    /\ parsed' = parse_github_url(UrlOf(urlParts))
    /\ phase' = "parsed"
    /\ UNCHANGED <<text, cleaned, recleaned, urlParts, reqVars, worldVars, callVars>>

NextParse == ParseUrl

SpecParse == InitParse /\ [][NextParse]_vars

(***************************************************************************)
(* C6: clean_code_block is idempotent: cleaning a cleaned text changes     *)
(* nothing.                                                                *)
(***************************************************************************)
C6_Idempotent == phase = "twice" => recleaned = cleaned

(***************************************************************************)
(* C7: clean_code_block removes the first line and the last line when the  *)
(* first line is a fence line (three backticks and an optional language    *)
(* tag) and the last line is a line of three backticks, and returns the    *)
(* text character for character in every other case.                       *)
(***************************************************************************)
\* the first line starts with three backticks and is followed by another line
HasLeadingFence(x) == StartsWith(x, Fence) /\ Contains(x, <<NL>>)
\* the last line is a line of three backticks
HasTrailingFence(x) == EndsWith(x, <<NL>> \o Fence)

Unfenced(x) ==
    IF HasLeadingFence(x) /\ HasTrailingFence(x)
       /\ Find(x, <<NL>>) + 1 <= Len(x) - 4
    THEN SubSeq(x, Find(x, <<NL>>) + 2, Len(x) - 4)
    ELSE x

C7_FencePairOnly == phase = "once" => cleaned = Unfenced(text)

(***************************************************************************)
(* C8: the URL built from an owner and a name of word characters, dots and *)
(* hyphens, in the HTTPS or the SSH form, with or without a trailing .git, *)
(* parses to that owner and that name.                                     *)
(***************************************************************************)
\* a URL built as the claim builds it; a name that itself ends in .git is
\* left out, since such a URL reads the same as another name's with the suffix
BuiltFromOwnerAndName ==
    /\ urlParts.prefix \in {HttpsScheme \o GithubCom \o Slash, SshPrefix}
    /\ urlParts.owner \in UrlWords
    /\ urlParts.sep = Slash
    /\ urlParts.name \in UrlWords
    /\ ~EndsWith(urlParts.name, DotGit)
    /\ urlParts.suffix \in {<<>>, DotGit}

C8_RoundTrip ==
    (phase = "parsed" /\ BuiltFromOwnerAndName)
        => parsed = Ok(urlParts.owner, urlParts.name)

(***************************************************************************)
(* C9: a URL that validate_github_url rejects, and an accepted URL whose   *)
(* owner or name is empty once the .git suffix is stripped, makes          *)
(* parse_github_url fail with GitOperationError and return no owner or     *)
(* name.                                                                   *)
(***************************************************************************)
\* what follows the host prefix of an accepted URL: owner, "/", name
AcceptedTail(url) ==
    IF StartsWith(url, SshPrefix)
    THEN From(url, Len(SshPrefix))
    ELSE From(url, Find(url, GithubCom \o Slash) + Len(GithubCom) + 1)

StripDotGit(s) == IF EndsWith(s, DotGit) THEN Upto(s, Len(s) - Len(DotGit)) ELSE s

EmptyOwnerOrName(url) ==
    LET on == SplitOnce(AcceptedTail(url), Slash)
    IN  on[1] = <<>> \/ StripDotGit(on[2]) = <<>>

C9_ParseFailsCleanly ==
    LET url == UrlOf(urlParts)
    IN  (phase = "parsed"
         /\ (~validate_github_url(url) \/ EmptyOwnerOrName(url)))
            => parsed = [kind |-> "GitOperationError"]

\* an accepted URL whose name is only ".git" has been parsed and refused
C9_Witness ==
    /\ phase = "parsed"
    /\ validate_github_url(UrlOf(urlParts))
    /\ urlParts.name = DotGit
    /\ urlParts.suffix = <<>>
    /\ parsed = [kind |-> "GitOperationError"]

(***************************************************************************)
(* SpecSnap: the snapshot of process_existing_repo (app.py, lines 265 to   *)
(* 293) applied to a working tree and its root .gitignore.                 *)
(***************************************************************************)
DotPy == <<".", "p", "y">>

\* the files a tree can hold: the directory below the root and the name
TreeFiles ==
    {[dir |-> <<>>, file |-> <<"a">> \o DotPy],
     [dir |-> <<"build">>, file |-> <<"a">> \o DotPy],
     [dir |-> <<"build">>, file |-> DotPy],
     [dir |-> <<>>, file |-> <<"a">> \o DotPy \o <<"c">>]}

\* what a file holds: bytes that are no UTF-8 text, or one of two texts
FileStates == {"absent", "undecodable", "text one", "text two"}

\* the lines of a .gitignore as GitWildMatchPattern compiles them, here
\* "*.py", "build/", "!a.py", "/a.py" and "# a.py": include is "None" for a
\* comment and "False" for a line that begins with "!"
IgnoreLines ==
    {[include |-> "True", form |-> "suffix", anchored |-> FALSE, text |-> DotPy],
     [include |-> "True", form |-> "dir", anchored |-> FALSE, text |-> <<"build">>],
     [include |-> "False", form |-> "name", anchored |-> FALSE, text |-> <<"a">> \o DotPy],
     [include |-> "True", form |-> "name", anchored |-> TRUE, text |-> <<"a">> \o DotPy],
     [include |-> "None", form |-> "name", anchored |-> FALSE, text |-> <<"a">> \o DotPy]}

\* the root .gitignore: none, one that cannot be decoded, or its lines
GitIgnores ==
    {[kind |-> "absent"], [kind |-> "undecodable"]}
        \cup {[kind |-> "lines", lines |-> l] : l \in SeqsUpTo(IgnoreLines, MaxIgnoreLines)}

\* GitWildMatchPattern.match_file: a pattern with no "/" before its end is
\* looked for at every depth, "name/" matches what lies below a directory
PatternMatches(pattern, f) ==
    CASE pattern.form = "suffix" -> EndsWith(f.file, pattern.text)
      [] pattern.form = "dir" -> \E i \in 1..Len(f.dir) : <<f.dir[i]>> = pattern.text
      [] pattern.form = "name" ->
            /\ f.file = pattern.text
            /\ pattern.anchored => f.dir = <<>>

\* the mutant: no path is ever ignored
match_nothing(patterns, f) == FALSE

\* PathSpec.match_file: the last pattern that matches decides
RECURSIVE MatchFrom(_, _, _)
MatchFrom(patterns, f, matched) ==
    IF patterns = <<>> THEN matched
    ELSE MatchFrom(Tail(patterns), f,
                   IF Head(patterns).include # "None" /\ PatternMatches(Head(patterns), f)
                   THEN Head(patterns).include = "True"
                   ELSE matched)

match_file(patterns, f) == MatchFrom(patterns, f, FALSE)

\* os.path.relpath(file_path, repo_path)
RelPath(f) == f.dir \o <<f.file>>

InitSnap ==
    /\ TextIdle
    /\ PipeIdle
    /\ gen = [state |-> "Idle"]
    /\ given \in [files : [TreeFiles -> FileStates], gitignore : GitIgnores]
    /\ returned = [state |-> "load"]

\* lines 266-271: the patterns of .gitignore are read and compiled
LoadIgnore ==
    /\ "state" \in DOMAIN returned
    /\ returned.state = "load"
    /\ returned' =
         CASE given.gitignore.kind = "absent" ->
                [state |-> "walk", ignore_spec |-> [kind |-> "None"],
                 left |-> {f \in TreeFiles : given.files[f] # "absent"},
                 codebase |-> <<>>, skipped |-> {}]
           [] given.gitignore.kind = "undecodable" ->
                [state |-> "raised", error |-> "UnicodeDecodeError"]
           [] given.gitignore.kind = "lines" ->
                [state |-> "walk",
                 ignore_spec |-> [kind |-> "PathSpec", patterns |-> given.gitignore.lines],
                 left |-> {f \in TreeFiles : given.files[f] # "absent"},
                 codebase |-> <<>>, skipped |-> {}]
    /\ UNCHANGED <<gen, given, textVars, reqVars, worldVars>>

\* lines 275-293: one file of os.walk, in the order the listing gives
WalkFile(f) ==
    /\ "state" \in DOMAIN returned
    /\ returned.state = "walk"
    /\ f \in returned.left
    /\ LET rel_path == RelPath(f)
           ignored == /\ returned.ignore_spec.kind = "PathSpec"
                      /\ match_file(returned.ignore_spec.patterns, f)
       IN  returned' =
             IF ~EndsWith(f.file, DotPy) \/ ignored
             THEN [returned EXCEPT !.left = @ \ {f}]
             ELSE IF given.files[f] = "undecodable"
             THEN [returned EXCEPT !.left = @ \ {f}, !.skipped = @ \cup {rel_path}]
             ELSE [returned EXCEPT
                     !.left = @ \ {f},
                     !.codebase = [p \in DOMAIN @ \cup {rel_path} |->
                                     IF p = rel_path THEN given.files[f] ELSE @[p]]]
    /\ UNCHANGED <<gen, given, textVars, reqVars, worldVars>>

\* line 296: the walk is over and the snapshot goes to generate_updated_code
EndWalk ==
    /\ "state" \in DOMAIN returned
    /\ returned.state = "walk"
    /\ returned.left = {}
    /\ returned' = [state |-> "done", codebase |-> returned.codebase,
                    skipped |-> returned.skipped]
    /\ UNCHANGED <<gen, given, textVars, reqVars, worldVars>>

NextSnap == LoadIgnore \/ (\E f \in TreeFiles : WalkFile(f)) \/ EndWalk

SpecSnap == InitSnap /\ [][NextSnap]_vars

(***************************************************************************)
(* SpecPR: the three create_pull_request of the repository, each applied   *)
(* to a branch, a repository and a value of BASE_BRANCH, against a host    *)
(* that creates the pull request it is asked for or refuses.               *)
(***************************************************************************)
Variants == {"git_operations", "GitHubProvider", "BitbucketServerProvider"}

\* os.getenv("BASE_BRANCH", "main"): the values of the environment
BaseBranchSettings == {"unset", "main", "develop"}

\* line 21 of git_operations.py
base_branch(setting) == IF setting = "unset" THEN "main" ELSE setting

PublishedBranches ==
    {"feature/user-story-update-20240101000000",
     "feature/user-story-update-20240101000001"}

HostedRepos == {<<"al", "app">>, <<"bo", "app">>}

RefsHeads == "refs/heads/"

\* the hosting service: the pull request it creates and the page it names
HostCreates(repo, head, base, outcome) ==
    IF outcome = "refuses" THEN Raise("HostError")
    ELSE [kind |-> "ok",
          pull |-> [repo |-> repo, head |-> head, base |-> base],
          html_url |-> <<repo, "pull", head, base>>]

\* the Bitbucket Server API names branches by ref: <<RefsHeads, name>>
BranchOfRef(ref) == ref[2]

\* git_operations.py, lines 166-209
create_pull_request(repo, head, setting, token, outcome) ==
    IF token = "unset" THEN Raise("GitOperationError")
    ELSE LET pull == HostCreates(repo, head, base_branch(setting), outcome)
         IN  IF pull.kind = "ok"
             THEN [kind |-> "ok", pull |-> pull.pull, url |-> pull.html_url]
             ELSE Raise("GitOperationError")

\* git_provider.py, lines 93-129: GitOperationError is not imported there
GitHubProvider_create_pull_request(repo, branch, outcome) ==
    LET pr == HostCreates(repo, branch, "main", outcome)
    IN  IF pr.kind = "ok"
        THEN [kind |-> "ok", pull |-> pr.pull, url |-> pr.html_url]
        ELSE Raise("NameError")

\* git_provider.py, lines 209-247
BitbucketServerProvider_create_pull_request(repo, branch, outcome) ==
    LET fromRef == <<RefsHeads, branch>>
        toRef == <<RefsHeads, "main">>
        pr_data == HostCreates(repo, BranchOfRef(fromRef), BranchOfRef(toRef), outcome)
    IN  IF pr_data.kind = "ok"
        THEN [kind |-> "ok", pull |-> pr_data.pull, url |-> pr_data.html_url]
        ELSE Raise("HTTPError")

InitPR ==
    /\ TextIdle
    /\ PipeIdle
    /\ gen = [state |-> "Idle"]
    /\ given \in [variant : Variants,
                  BASE_BRANCH : BaseBranchSettings,
                  GITHUB_TOKEN : {"set", "unset"},
                  branch : PublishedBranches,
                  repo : HostedRepos,
                  host : {"creates", "refuses"}]
    /\ returned = [kind |-> "not called"]

CallCreatePullRequest ==
    /\ "variant" \in DOMAIN given
    /\ given.variant = "git_operations"
    /\ returned.kind = "not called"
    /\ returned' = create_pull_request(given.repo, given.branch, given.BASE_BRANCH,
                                       given.GITHUB_TOKEN, given.host)
    /\ UNCHANGED <<gen, given, textVars, reqVars, worldVars>>

CallGitHubProvider ==
    /\ "variant" \in DOMAIN given
    /\ given.variant = "GitHubProvider"
    /\ returned.kind = "not called"
    /\ returned' = GitHubProvider_create_pull_request(given.repo, given.branch, given.host)
    /\ UNCHANGED <<gen, given, textVars, reqVars, worldVars>>

CallBitbucketServerProvider ==
    /\ "variant" \in DOMAIN given
    /\ given.variant = "BitbucketServerProvider"
    /\ returned.kind = "not called"
    /\ returned' = BitbucketServerProvider_create_pull_request(given.repo, given.branch,
                                                               given.host)
    /\ UNCHANGED <<gen, given, textVars, reqVars, worldVars>>

NextPR == CallCreatePullRequest \/ CallGitHubProvider \/ CallBitbucketServerProvider

SpecPR == InitPR /\ [][NextPR]_vars

(***************************************************************************)
(* SpecList: the three listing operations (GitHubProvider.get_repositories *)
(* and BitbucketServerProvider.get_repositories of git_provider.py,        *)
(* get_user_repositories of git_operations.py), each applied to a host     *)
(* that holds projects (owners) with their repositories.                   *)
(***************************************************************************)
ProjectKeys == {"a", "B", "c"}

RepoNames == <<<<"r", "1">>, <<"r", "2">>, <<"r", "3">>>>

\* a host hands out at most ServerPageMax entries per page, whatever the
\* limit asked for; the hosts have up to one project and one repository
\* per project more than that
MaxProjects == ServerPageMax + 1
MaxRepos == IF ServerPageMax + 1 <= Len(RepoNames) THEN ServerPageMax + 1 ELSE Len(RepoNames)

\* the hosts: the projects in the order the host lists them, each with the
\* number of its repositories
Servers ==
    {s \in SeqsUpTo([key : ProjectKeys, repos : 0..MaxRepos], MaxProjects) :
        \A i, j \in 1..Len(s) : i # j => s[i].key # s[j].key}

\* f"{project_key}/{repo['name']}", repo.full_name
FullName(key, name) == <<key, "/">> \o name

\* the repositories of one project, in the order the host lists them
ReposOf(project) == [i \in 1..project.repos |-> FullName(project.key, RepoNames[i])]

\* one page of a paged Bitbucket Server resource
ServerPage(items, start, asked) ==
    LET size == IF asked <= ServerPageMax THEN asked ELSE ServerPageMax
        last == IF start + size <= Len(items) THEN start + size ELSE Len(items)
    IN  [values |-> SubSeq(items, start + 1, last),
         isLastPage |-> start + size >= Len(items),
         nextPageStart |-> start + size]

\* str.lower() and the order of str on the characters the model uses
LowerChar(c) == IF c = "B" THEN "b" ELSE c
Lower(s) == [i \in 1..Len(s) |-> LowerChar(s[i])]
Ord(c) ==
    CASE c = "/" -> 47 [] c = "1" -> 49 [] c = "2" -> 50 [] c = "3" -> 51
      [] c = "B" -> 66 [] c = "a" -> 97 [] c = "b" -> 98 [] c = "c" -> 99
      [] c = "r" -> 114

RECURSIVE StrLess(_, _)
StrLess(s, t) ==
    IF t = <<>> THEN FALSE
    ELSE IF s = <<>> THEN TRUE
    ELSE IF Head(s) # Head(t) THEN Ord(Head(s)) < Ord(Head(t))
    ELSE StrLess(Tail(s), Tail(t))

\* repos.sort(key=lambda x: x["full_name"].lower()): a stable sort
RECURSIVE SortByLowerFullName(_)
SortByLowerFullName(repos) ==
    IF repos = <<>> THEN <<>>
    ELSE LET n == Len(repos)
             sorted == SortByLowerFullName(SubSeq(repos, 1, n - 1))
             x == repos[n]
             \* x goes behind every entry whose key is not greater than its own
             k == Cardinality({i \in 1..Len(sorted) :
                                  ~StrLess(Lower(x), Lower(sorted[i]))})
         IN  SubSeq(sorted, 1, k) \o <<x>> \o SubSeq(sorted, k + 1, Len(sorted))

\* gh.get_user().get_repos(): the paginated list yields every repository
get_repos(server) == Flatten([i \in 1..Len(server) |-> ReposOf(server[i])])

InitList ==
    /\ TextIdle
    /\ PipeIdle
    /\ gen = [state |-> "Idle"]
    /\ given \in [operation : {"GitHubProvider.get_repositories",
                               "BitbucketServerProvider.get_repositories",
                               "get_user_repositories"},
                  server : Servers]
    /\ returned = [state |-> "called"]

\* git_provider.py, lines 82-91
GitHubProvider_get_repositories ==
    /\ "operation" \in DOMAIN given
    /\ given.operation = "GitHubProvider.get_repositories"
    /\ returned.state = "called"
    /\ returned' = [state |-> "done", repos |-> get_repos(given.server)]
    /\ UNCHANGED <<gen, given, textVars, reqVars, worldVars>>

\* git_operations.py, lines 211-255
get_user_repositories ==
    /\ "operation" \in DOMAIN given
    /\ given.operation = "get_user_repositories"
    /\ returned.state = "called"
    /\ returned' = [state |-> "done",
                    repos |-> SortByLowerFullName(get_repos(given.server))]
    /\ UNCHANGED <<gen, given, textVars, reqVars, worldVars>>

\* git_provider.py, lines 157-169: one request for the projects, and the
\* values of its answer
FetchProjects ==
    /\ "operation" \in DOMAIN given
    /\ given.operation = "BitbucketServerProvider.get_repositories"
    /\ returned.state = "called"
    /\ LET projects_data == ServerPage(given.server, 0, 100)
       IN  returned' = [state |-> IF projects_data.values = <<>> THEN "done" ELSE "paging",
                        projects |-> projects_data.values,
                        repos |-> <<>>,
                        start |-> 0]
    /\ UNCHANGED <<gen, given, textVars, reqVars, worldVars>>

\* lines 172-203: one page of the repositories of the project in turn; after
\* the last page start is reset and the next project is in turn
FetchRepoPage ==
    /\ "state" \in DOMAIN returned
    /\ returned.state = "paging"
    /\ LET project == Head(returned.projects)
           data == ServerPage(ReposOf(project), returned.start, limit)
           repos == returned.repos \o data.values
       IN  returned' =
             IF ~data.isLastPage
             THEN [returned EXCEPT !.repos = repos, !.start = data.nextPageStart]
             ELSE [state |-> IF Tail(returned.projects) = <<>> THEN "done" ELSE "paging",
                   projects |-> Tail(returned.projects),
                   repos |-> repos,
                   start |-> 0]
    /\ UNCHANGED <<gen, given, textVars, reqVars, worldVars>>

NextList ==
    \/ GitHubProvider_get_repositories
    \/ get_user_repositories
    \/ FetchProjects
    \/ FetchRepoPage

SpecList == InitList /\ [][NextList]_vars

(***************************************************************************)
(* SpecAuth: the session of one browser and the routes of app.py that read *)
(* or write it. given is the session, returned the last response.          *)
(***************************************************************************)
Absent == "absent"

\* a session with no key
EmptySession ==
    [authenticated |-> Absent, git_provider |-> Absent, github_token |-> Absent,
     github_user |-> Absent, bitbucket_user |-> Absent, bitbucket_token |-> Absent,
     oauth_state |-> Absent, next_url |-> Absent]

\* clear_auth (codefactory/services/auth.py, lines 46-50)
clear_auth(session) ==
    [session EXCEPT !.github_token = Absent, !.github_user = Absent,
                    !.next_url = Absent]

\* index (app.py, lines 89-103): what the page is rendered with
IndexPage(session) ==
    LET authenticated == session.authenticated # Absent
    IN  [route |-> "index", authenticated |-> authenticated,
         user_info |-> IF ~authenticated THEN "None"
                       ELSE IF session.github_user # Absent THEN session.github_user
                       ELSE IF session.bitbucket_user # Absent THEN session.bitbucket_user
                       ELSE "None"]

\* get_repositories (app.py, lines 374-397), the provider listing or raising
ApiRepositories(session, listing) ==
    IF session.authenticated = Absent THEN [route |-> "api_repositories", status |-> 401]
    ELSE IF session.git_provider = Absent THEN [route |-> "api_repositories", status |-> 400]
    ELSE IF listing = "raises" THEN [route |-> "api_repositories", status |-> 500]
    ELSE [route |-> "api_repositories", status |-> 200]

InitAuth ==
    /\ TextIdle
    /\ PipeIdle
    /\ gen = [state |-> "Idle"]
    /\ given = EmptySession
    /\ returned = [route |-> "none"]

\* github_login (app.py, lines 105-117)
github_login ==
    /\ "authenticated" \in DOMAIN given
    /\ \/ /\ given' = [given EXCEPT !.oauth_state = "state"]
          /\ returned' = [route |-> "github_login", page |-> "redirect"]
       \/ /\ UNCHANGED given
          /\ returned' = [route |-> "github_login", page |-> "error"]
    /\ UNCHANGED <<gen, textVars, reqVars, worldVars>>

\* github_callback (app.py, lines 119-178): the token, the provider and the
\* flag are stored before the user is asked for
github_callback ==
    /\ "authenticated" \in DOMAIN given
    /\ \E outcome \in {"error", "no code", "fetch_token raises", "user not ok", "ok"} :
        /\ given' =
             IF outcome \in {"error", "no code", "fetch_token raises"} THEN given
             ELSE LET stored == [given EXCEPT !.github_token = "token",
                                              !.git_provider = "github",
                                              !.authenticated = "True"]
                  IN  IF outcome = "ok"
                      THEN [stored EXCEPT !.github_user = "github user"]
                      ELSE stored
        /\ returned' = [route |-> "github_callback",
                        page |-> IF outcome = "ok" THEN "redirect" ELSE "error"]
    /\ UNCHANGED <<gen, textVars, reqVars, worldVars>>

\* bitbucket_login (app.py, lines 419-437): the provider is stored before
\* the token is tried
bitbucket_login ==
    /\ "authenticated" \in DOMAIN given
    /\ \E outcome \in {"get_provider raises", "get_user_info raises", "ok"} :
        /\ given' =
             IF outcome = "get_provider raises" THEN given
             ELSE IF outcome = "get_user_info raises"
             THEN [given EXCEPT !.git_provider = "bitbucket"]
             ELSE [given EXCEPT !.git_provider = "bitbucket",
                                !.bitbucket_user = "bitbucket user",
                                !.authenticated = "True"]
        /\ returned' = [route |-> "bitbucket_login",
                        page |-> IF outcome = "ok" THEN "redirect" ELSE "error"]
    /\ UNCHANGED <<gen, textVars, reqVars, worldVars>>

\* bitbucket_callback (app.py, lines 439-462): fetch_token of the
\* static-token client returns {}, which is stored before
\* token['access_token'] raises
bitbucket_callback ==
    /\ "authenticated" \in DOMAIN given
    /\ \E outcome \in {"error", "get_provider raises", "KeyError"} :
        /\ given' = IF outcome = "KeyError"
                    THEN [given EXCEPT !.bitbucket_token = "{}"]
                    ELSE given
        /\ returned' = [route |-> "bitbucket_callback", page |-> "error"]
    /\ UNCHANGED <<gen, textVars, reqVars, worldVars>>

\* login_required (auth.py, lines 27-36) in front of submit_user_story
login_required ==
    /\ "authenticated" \in DOMAIN given
    /\ IF given.github_token = Absent
       THEN /\ given' = [given EXCEPT !.next_url = "/submit"]
            /\ returned' = [route |-> "submit", page |-> "redirect"]
       ELSE /\ UNCHANGED given
            /\ returned' = [route |-> "submit", page |-> "handler"]
    /\ UNCHANGED <<gen, textVars, reqVars, worldVars>>

\* logout (app.py, lines 180-184)
logout ==
    /\ "authenticated" \in DOMAIN given
    /\ given' = clear_auth(given)
    /\ returned' = [route |-> "logout", page |-> "redirect"]
    /\ UNCHANGED <<gen, textVars, reqVars, worldVars>>

index ==
    /\ "authenticated" \in DOMAIN given
    /\ returned' = IndexPage(given)
    /\ UNCHANGED <<gen, given, textVars, reqVars, worldVars>>

get_repositories ==
    /\ "authenticated" \in DOMAIN given
    /\ \E listing \in {"returns", "raises"} :
        returned' = ApiRepositories(given, listing)
    /\ UNCHANGED <<gen, given, textVars, reqVars, worldVars>>

NextAuth ==
    \/ github_login
    \/ github_callback
    \/ bitbucket_login
    \/ bitbucket_callback
    \/ login_required
    \/ logout
    \/ index
    \/ get_repositories

SpecAuth == InitAuth /\ [][NextAuth]_vars

(***************************************************************************)
(* The pipeline's requests.                                                *)
(***************************************************************************)
\* the request has begun the git and file steps on its checkout (the fetch
\* of clone_or_open_repo is done) and has not finished the last push
InCheckout(r) ==
    pc[r] \in {"checkout_base", "snapshot", "write", "branch", "write2",
               "commit", "push"}

\* the remote repository a request names
Remote(r) ==
    LET p == parse_github_url(repository_input[r])
    IN  <<p.owner, p.name>>

\* the git and hosting calls
GitCalls ==
    {"clone_or_open_repo", "checkout", "commit", "push", "create_pull_request"}

\* the request passed validation with an empty or blank repository field
ScratchRequest(r) ==
    /\ pc[r] # "idle"
    /\ response[r].status # 400
    /\ Strip(repo_field[r]) = <<>>

\* C1: whenever generated content is written into the checkout or committed,
\* the branch checked out is a feature branch this request created and is
\* not the base branch; no commit is made on the base branch and the base
\* branch is never pushed.
C1_NeverOnBase ==
    /\ (event.op = "write" /\ event.root # OutputDir) =>
            /\ event.head # Base
            /\ event.head \in created[event.by]
    /\ (event.op = "commit" /\ event.made) =>
            /\ event.branch # Base
            /\ event.branch \in created[event.by]
    /\ event.op = "push" => event.branch # Base

\* C2: two requests with the same local checkout path are never both inside
\* their git and file steps on that checkout, and so no request snapshots
\* or commits content another request wrote.
C2_Serialized ==
    /\ \A q, r \in Req :
        (q # r /\ InCheckout(q) /\ InCheckout(r)) =>
            RepoPath(repo_name_local[q]) # RepoPath(repo_name_local[r])
    /\ event.op = "snapshot" =>
            \A l \in Locs : event.codebase[l] \in {"orig", "none"}
    /\ (event.op = "commit" /\ event.made) =>
            \A l \in Locs : event.tree[l] \in {"orig", "none", event.by}

\* C3: two requests that name different remote repositories (another owner
\* or another name) never work on the same local checkout directory.
C3_DistinctCheckouts ==
    \A q, r \in Req :
        (q # r /\ InCheckout(q) /\ InCheckout(r) /\ Remote(q) # Remote(r)) =>
            RepoPath(repo_name_local[q]) # RepoPath(repo_name_local[r])

\* C4: every file written lies inside the repository root (update) or
\* inside the output directory (scratch generation), whatever the path key.
C4_WritesInsideRoot ==
    /\ event.op = "write" => Under(event.root, event.dest)
    /\ event.op = "generate_new_code" =>
            \A dest \in event.wrote : Under(OutputDir, dest)

\* C5: the existing-directory branch of clone_or_open_repo is taken only on
\* a valid repository: a request that finds what a failed clone left either
\* clones again or ends with a GitOperationError.
C5_PartialCloneNotReused ==
    \A r \in Req :
        found[r] \in {"nogit", "halfgit"} =>
            /\ pc[r] = "done"
            /\ response[r].error = "GitOperationError"

\* a valid request with an empty or blank repository field makes no git and
\* no hosting call
NoGitCallFromScratch ==
    \A r \in Req :
        (ScratchRequest(r) /\ event.by = r) => event.op \notin GitCalls

\* a valid request with an empty or blank repository field was served
C10_Witness ==
    \E r \in Req :
        /\ ScratchRequest(r)
        /\ event.by = r
        /\ event.op = "generate_new_code"
        /\ pc[r] = "done"

\* C10: a valid request with an empty or blank repository field makes no
\* git and no hosting call, and writes files only under the output directory.
C10_ScratchStaysLocal ==
    \A r \in Req :
        (ScratchRequest(r) /\ event.by = r) =>
            /\ event.op \notin GitCalls
            /\ event.op = "write" => Under(OutputDir, event.dest)
            /\ event.op = "generate_new_code" =>
                    \A dest \in event.wrote : Under(OutputDir, dest)

\* the steps of SpecGen end where generate_code ends
GenAgrees ==
    gen.state \in {"Done", "Failed"} =>
        LET r == generate_code(gen.template_name,
                               KwargsOf(gen.template_name, gen.requirement),
                               gen.reply)
        IN  /\ (gen.state = "Done") = (r.kind = "ok")
            /\ gen.calls = r.calls
            /\ gen.state = "Done" => gen.value = r.value

\* C11: generation from scratch renders the generate_code template, asks
\* the Completion Provider exactly once, and ends in Done with the FileSet
\* whenever the provider's answer is a non-empty path-to-content object.
C11_ScratchGenerates ==
    (gen.state \in {"Done", "Failed"} /\ gen.template_name = "generate_code") =>
        /\ gen.calls = 1
        /\ (gen.reply.json = "object" /\ gen.reply.value # <<>>) =>
                /\ gen.state = "Done"
                /\ gen.value = gen.reply.value

\* the update request whose generation met an answer that is no JSON
C12_Witness ==
    /\ event.op = "snapshot"
    /\ event.reply = "invalid"
    /\ pc[event.by] = "done"

\* C12: when the provider's answer to an update request is no JSON, the
\* request ends with CodeGenerationError; it has written no file into the
\* checkout and created no branch, and it takes no further step: no write,
\* no branch, no push, no pull request.
C12_BadJsonStopsRequest ==
    [][\A r \in Req :
        /\ (event'.op = "snapshot" /\ event'.by = r /\ event'.reply = "invalid") =>
            /\ pc'[r] = "done"
            /\ response'[r] = [status |-> 500, error |-> "CodeGenerationError"]
            /\ event'.created = {}
            /\ disk' = disk
            /\ \A l \in Locs :
                /\ disk[repo_name_local[r]].work[l] # r
                /\ \A b \in disk[repo_name_local[r]].branches :
                        disk[repo_name_local[r]].tips[b][l] # r
        /\ (pc[r] = "done" /\ response[r].error = "CodeGenerationError") =>
            /\ event'.by # r
            /\ pc'[r] = "done"]_vars

\* a publish call that staged nothing new: no commit, and the push is next
C14_Witness ==
    /\ event.op = "commit"
    /\ ~event.made
    /\ event.tree = event.parent
    /\ pc[event.by] = "push"

\* C14: create_unique_branch_and_push commits exactly when what is staged
\* differs from the last commit of the branch checked out, so no commit
\* repeats the tree of its parent, and the push follows in both cases.
C14_CommitOnlyWhenDirty ==
    event.op = "commit" =>
        /\ event.made = (event.tree # event.parent)
        /\ pc[event.by] = "push"

\* C15: when the push of the new branch fails, the publish call fails with
\* GitOperationError, the local branch stays, and the request ends without
\* a pull request.
C15_PushFailureIsFatal ==
    (event.op = "push" /\ event.result # "pushed") =>
        /\ event.kept
        /\ pc[event.by] = "done"
        /\ response[event.by] = [status |-> 500, error |-> "GitOperationError"]

\* C16: a request calls pull-request creation at most once and only after
\* every one of its pushes succeeded: a push that did not succeed ends the
\* request, and so does the call of pull-request creation, whatever its end.
C16_PullRequestOnceAfterPushes ==
    /\ (event.op = "push" /\ event.result # "pushed") => pc[event.by] = "done"
    /\ event.op = "create_pull_request" => pc[event.by] = "done"

IgnoredBy(g, f) ==
    /\ g.kind = "lines"
    /\ \E i \in 1..Len(g.lines) :
        /\ g.lines[i].include = "True"
        /\ PatternMatches(g.lines[i], f)
        /\ \A j \in (i + 1)..Len(g.lines) :
            g.lines[j].include = "False" => ~PatternMatches(g.lines[j], f)

\* the files of the tree the claim puts in the snapshot
Eligible ==
    {f \in TreeFiles : /\ given.files[f] \in {"text one", "text two"}
                       /\ EndsWith(f.file, DotPy)
                       /\ ~IgnoredBy(given.gitignore, f)}

\* a snapshot is over that left out an ignored readable .py file and a .py
\* file that cannot be decoded, and took another
C13_Witness ==
    /\ "state" \in DOMAIN returned
    /\ returned.state = "done"
    /\ "files" \in DOMAIN given
    /\ returned.codebase # <<>>
    /\ returned.skipped # {}
    /\ \E f \in TreeFiles :
        /\ given.files[f] = "text one"
        /\ EndsWith(f.file, DotPy)
        /\ IgnoredBy(given.gitignore, f)

\* C13: the snapshot holds exactly the files whose name ends in .py, that the
\* root ignore file does not match and that can be read as UTF-8 text, each
\* with its content; no ignored path is ever in it, and a file that cannot
\* be read is left out while the snapshot goes on to its end.
C13_SnapshotExact ==
    ("state" \in DOMAIN returned /\ "files" \in DOMAIN given) =>
        /\ returned.state \in {"walk", "done"} =>
            /\ \A f \in TreeFiles :
                IgnoredBy(given.gitignore, f) => RelPath(f) \notin DOMAIN returned.codebase
            /\ \A f \in TreeFiles :
                given.files[f] = "undecodable" => RelPath(f) \notin DOMAIN returned.codebase
        /\ returned.state = "done" =>
            /\ DOMAIN returned.codebase = {RelPath(f) : f \in Eligible}
            /\ \A f \in Eligible : returned.codebase[RelPath(f)] = given.files[f]
        /\ returned.state = "raised" => given.gitignore.kind = "undecodable"

(***************************************************************************)
(* Pull-request creation.                                                  *)
(***************************************************************************)
\* C17: a pull request that was created has the published branch as head
\* and the configured base branch as base, whichever client created it, and
\* the call returned the address of that pull request.
C17_HeadAndBase ==
    ("variant" \in DOMAIN given /\ returned.kind = "ok") =>
        /\ returned.pull.head = given.branch
        /\ returned.pull.base =
              (IF given.BASE_BRANCH = "unset" THEN "main" ELSE given.BASE_BRANCH)
        /\ returned.pull.repo = given.repo
        /\ returned.url = <<given.repo, "pull", returned.pull.head, returned.pull.base>>

(***************************************************************************)
(* Repository listings.                                                    *)
(***************************************************************************)
\* C18: the list a listing operation returns is in the order of the full
\* names compared without regard to case.
C18_ListingsSorted ==
    ("operation" \in DOMAIN given /\ returned.state = "done") =>
        \A i, j \in 1..Len(returned.repos) :
            i < j => ~StrLess(Lower(returned.repos[j]), Lower(returned.repos[i]))

\* C19: the listing of the static-token client holds every repository of
\* every project of the host, once.
C19_EveryProjectEveryRepo ==
    ( /\ "operation" \in DOMAIN given
      /\ given.operation = "BitbucketServerProvider.get_repositories"
      /\ returned.state = "done" ) =>
        /\ {returned.repos[i] : i \in 1..Len(returned.repos)} =
              UNION {{FullName(given.server[p].key, RepoNames[n]) :
                          n \in 1..given.server[p].repos} : p \in 1..Len(given.server)}
        /\ \A i, j \in 1..Len(returned.repos) :
              i # j => returned.repos[i] # returned.repos[j]

(***************************************************************************)
(* The pipeline's failures and its branches.                               *)
(***************************************************************************)
\* the request names a repository and went into process_existing_repo
ExistingRequest(r) ==
    /\ pc[r] # "idle"
    /\ response[r].status # 400
    /\ repository_input[r] # <<>>

\* C21: a request for an existing repository that ends in a failure is
\* answered with the GitOperationError or the CodeGenerationError that was
\* raised, never with only the generic message.
C21_FailuresAreNamed ==
    \A r \in Req :
        (ExistingRequest(r) /\ pc[r] = "done" /\ response[r].status = 500) =>
            response[r].error \in {"GitOperationError", "CodeGenerationError"}

\* C23: once a request for an existing repository has ended in a failure,
\* the working tree of its checkout holds no content it generated that is
\* not committed on the branch checked out.
C23_FailureLeavesCleanTree ==
    \A r \in Req :
        (ExistingRequest(r) /\ pc[r] = "done" /\ response[r].status = 500
            /\ event.by = r /\ repo_name_local[r] \in DOMAIN disk) =>
            LET dir == disk[repo_name_local[r]]
            IN  \A l \in Locs :
                    dir.work[l] = r => dir.tips[dir.head][l] = r

\* C24: every branch a publish call creates is cut from the base branch.
C24_CutFromBase ==
    (event.op = "checkout" /\ "new" \in DOMAIN event /\ event.new) =>
        event.from = Base

\* C25: a publish call that finds a branch of its name checks that branch
\* out and goes on to write, commit and push.
C25_CollisionChecksOut ==
    (event.op = "checkout" /\ "new" \in DOMAIN event /\ ~event.new) =>
        /\ pc[event.by] = "write2"
        /\ disk[repo_name_local[event.by]].head = event.branch

\* C27: a request creates at most one branch, however many entries its
\* FileSet has.
C27_OneBranchPerRequest ==
    \A r \in Req : Cardinality(created[r]) <= 1

\* C28: a request whose last step was the pull-request step, with no call
\* of it raising, is answered with the confirmation.
C28_SuccessIsConfirmed ==
    \A r \in Req :
        ( /\ ExistingRequest(r)
          /\ event.by = r
          /\ pc[r] = "done"
          /\ \/ event.op = "none"
             \/ event.op = "create_pull_request" /\ event.result = "created" ) =>
            response[r] = [status |-> 200, error |-> "none"]

\* C29: the repository a branch is pushed to, the origin of the checkout,
\* is the repository the request names and asks the pull request on.
C29_PushAndPullRequestAgree ==
    /\ event.op = "push" =>
          LET o == parse_github_url(event.origin)
          IN  <<o.owner, o.name>> = Remote(event.by)
    /\ (event.op = "create_pull_request" /\ event.result = "created") =>
          LET o == parse_github_url(disk[repo_name_local[event.by]].origin)
          IN  <<o.owner, o.name>> = event.repo

\* C22: a pull-request creation of a provider client that fails raises
\* GitOperationError and no other error type.
C22_OneErrorKind ==
    ( /\ "variant" \in DOMAIN given
      /\ given.variant \in {"GitHubProvider", "BitbucketServerProvider"}
      /\ returned.kind \notin {"ok", "not called"} ) =>
        returned.kind = "GitOperationError"

\* a file was written into a checkout whose other tracked file, which the
\* response does not name, holds what it held
C26_Witness ==
    /\ event.op = "write"
    /\ event.root # OutputDir
    /\ \E d \in DOMAIN disk :
        /\ event.root = RepoPath(d)
        /\ disk[d].work[<<APy>>] = event.by
        /\ disk[d].work[<<KPy>>] = "orig"

\* C26: a write of an entry changes at most the file its key names, and
\* nothing else of any checkout; no step removes a file of a working tree.
C26_OnlyKeysAreWritten ==
    [][ /\ event'.op = "write" =>
            \A d \in DOMAIN disk :
                /\ disk'[d].kind = disk[d].kind
                /\ disk'[d].head = disk[d].head
                /\ disk'[d].branches = disk[d].branches
                /\ disk'[d].tips = disk[d].tips
                /\ \A l \in Locs :
                    disk'[d].work[l] # disk[d].work[l] =>
                        /\ event'.root = RepoPath(d)
                        /\ Under(RepoPath(d), event'.dest)
                        /\ event'.dest = Resolve(Join(RepoPath(d), Rel(l)))
                        /\ disk'[d].work[l] = event'.by
        /\ \A d \in DOMAIN disk : \A l \in Locs :
            disk[d].work[l] # "none" => disk'[d].work[l] # "none" ]_vars

(***************************************************************************)
(* Logout.                                                                 *)
(***************************************************************************)
\* C30: right after logout the index page reports no authenticated user,
\* /api/repositories answers 401, and the session holds no provider and no
\* user info.
C30_LogoutClearsSession ==
    ("route" \in DOMAIN returned /\ returned.route = "logout") =>
        /\ ~IndexPage(given).authenticated
        /\ \A listing \in {"returns", "raises"} :
              ApiRepositories(given, listing).status = 401
        /\ given.git_provider = Absent
        /\ given.github_user = Absent
        /\ given.bitbucket_user = Absent

====
